---- MODULE Spec2Model ----
(***************************************************************************)
(* Dependency-aware retrieval pipeline of the code-review service:         *)
(*   biz/utils/ast_util.py      dependency extraction                      *)
(*   biz/llm/embeddings.py      EmbeddingProvider                          *)
(*   biz/utils/vector_store.py  VectorStore (load, search, degradation)    *)
(*   biz/utils/code_reviewer.py CodeReviewer.review_code (assembly)        *)
(*                                                                         *)
(* Strings are sequences of one-character strings.  A Python call that can *)
(* raise is an operator returning a record with a `raised` field.  Floats  *)
(* are exact rationals <<numerator, denominator>> with denominator > 0.    *)
(***************************************************************************)
EXTENDS Integers, Sequences, FiniteSets, TLC

VARIABLES
    fs,     \* the knowledge file found at VectorStore.path
    env,    \* the embedding provider's environment: credentials, service
    conf,   \* environment settings read by review_code
    data,   \* VectorStore.data
    pc,     \* position of the request
    call    \* the last call: its arguments and its outcome

vars == <<fs, env, conf, data, pc, call>>

(***************************************************************************)
(* Bounds                                                                  *)
(***************************************************************************)
MaxItems == 2      \* records in a snapshot
MaxTerms == 2      \* query terms in one search
MaxTopK == 2       \* largest top_k
MaxVecs == 2       \* vectors returned by the provider
MaxLines == 2      \* statements of a code text
MaxPathLen == 2    \* segments of a module path

(***************************************************************************)
(* Generic helpers                                                         *)
(***************************************************************************)
SeqsUpTo(S, n) == UNION {[1..k -> S] : k \in 0..n}

Min(a, b) == IF a <= b THEN a ELSE b

Max(a, b) == IF a >= b THEN a ELSE b

RECURSIVE SumSeq(_)
SumSeq(s) == IF s = <<>> THEN 0 ELSE Head(s) + SumSeq(Tail(s))

\* Python s[:k]
Slice(s, k) ==
    IF k >= 0 THEN SubSeq(s, 1, Min(k, Len(s)))
    ELSE SubSeq(s, 1, Max(0, Len(s) + k))

(***************************************************************************)
(* Strings                                                                 *)
(***************************************************************************)
\* the characters used are "a", "A" and "b"
lowerChar(c) == IF c = "A" THEN "a" ELSE c

\* str.lower()
lower(s) == IF s = <<>> THEN <<>> ELSE [i \in 1..Len(s) |-> lowerChar(s[i])]

\* Python `t in name` on strings
Contains(name, t) ==
    \E i \in 0..(Len(name) - Len(t)) : SubSeq(name, i + 1, i + Len(t)) = t

(***************************************************************************)
(* Scores: exact rationals <<num, den>>, den > 0                           *)
(***************************************************************************)
ScoreLT(x, y) == x[1] * y[2] < y[1] * x[2]

ScoreEQ(x, y) == x[1] * y[2] = y[1] * x[2]

Dot(a, b) == SumSeq([i \in 1..Len(a) |-> a[i] * b[i]])

Sign(x) == IF x > 0 THEN 1 ELSE IF x < 0 THEN -1 ELSE 0

\* _cosine_sim(a, b).  The square roots of the norms are not rational, so the
\* value kept is sign(c) * c^2 for the cosine c: an increasing function of c
\* that is 0 exactly when c is 0 and 1 exactly when c is 1.
_cosine_sim(a, b) ==
    IF a = <<>> \/ b = <<>> \/ Len(a) # Len(b) THEN <<0, 1>>
    ELSE IF Dot(a, a) = 0 \/ Dot(b, b) = 0 THEN <<0, 1>>
    ELSE <<Sign(Dot(a, b)) * Dot(a, b) * Dot(a, b), Dot(a, a) * Dot(b, b)>>

(***************************************************************************)
(* list.sort(key=score, reverse=True): stable, descending                  *)
(***************************************************************************)
\* an unstable sort: a later element goes before the earlier ones of its score
RECURSIVE InsertDesc_unstable(_, _)
InsertDesc_unstable(x, s) ==
    IF s = <<>> THEN <<x>>
    ELSE IF ~ScoreLT(x.score, Head(s).score) THEN <<x>> \o s
    ELSE <<Head(s)>> \o InsertDesc_unstable(x, Tail(s))

RECURSIVE InsertDesc(_, _)
InsertDesc(x, s) ==
    IF s = <<>> THEN <<x>>
    ELSE IF ScoreLT(Head(s).score, x.score) THEN <<x>> \o s
    ELSE <<Head(s)>> \o InsertDesc(x, Tail(s))

RECURSIVE SortDesc(_)
SortDesc(s) ==
    IF s = <<>> THEN <<>>
    ELSE InsertDesc(s[Len(s)], SortDesc(SubSeq(s, 1, Len(s) - 1)))

(***************************************************************************)
(* VectorStore.data: a decoded JSON value.                                 *)
(*   isDict      the top-level value is an object                          *)
(*   items.kind  "missing"  no "items" key                                 *)
(*               "list"     a list (elems)                                 *)
(*               "falsy"    null, 0, "", {}                                *)
(*               "nonlist"  any other truthy value that is not a list      *)
(* A list element is a record (isDict) with an id, a name and an optional  *)
(* embedding, or some other JSON value.  The "text" field is copied from   *)
(* the record to the result unchanged and is left out.                     *)
(***************************************************************************)
Record(id, name, emb) == [isDict |-> TRUE, id |-> id, name |-> name, emb |-> emb]

NotARecord(id) ==
    [isDict |-> FALSE, id |-> id, name |-> <<>>, emb |-> [present |-> FALSE, vec |-> <<>>]]

NoEmbedding == [present |-> FALSE, vec |-> <<>>]

Embedding(v) == [present |-> TRUE, vec |-> v]

JsonObject(kind, elems) == [isDict |-> TRUE, items |-> [kind |-> kind, elems |-> elems]]

JsonNonObject == [isDict |-> FALSE, items |-> [kind |-> "missing", elems |-> <<>>]]

\* self.data = {"items": []}
DefaultData == JsonObject("list", <<>>)

\* VectorStore._load: the file is missing, cannot be opened, cannot be
\* decoded, or decodes to fs.json
_load(f) ==
    IF f.cond = "missing" THEN DefaultData
    ELSE IF f.cond \in {"unreadable", "undecodable"} THEN DefaultData
    ELSE f.json

\* self.data.get("items", [])
GetItems(d) == IF d.items.kind = "missing" THEN [kind |-> "list", elems |-> <<>>] ELSE d.items

\* truth value of a JSON value used as a condition
Truthy(items) ==
    \/ items.kind = "nonlist"
    \/ items.kind = "list" /\ items.elems # <<>>

\* iterating the value and calling it.get(...) on each element succeeds
Iterable(items) ==
    /\ items.kind = "list"
    /\ \A i \in 1..Len(items.elems) : items.elems[i].isDict

(***************************************************************************)
(* EmbeddingProvider                                                       *)
(*   env.creds    OPENAI_API_KEY is set                                    *)
(*   env.service  "raises" or "returns"                                    *)
(*   env.vecs     the vectors the service returns                          *)
(***************************************************************************)
EmbeddingProvider_init(e) == [raised |-> ~e.creds]

get_embeddings(e, texts) ==
    IF texts = <<>> THEN [raised |-> FALSE, vecs |-> <<>>]
    ELSE IF e.service = "raises" THEN [raised |-> TRUE, vecs |-> <<>>]
    ELSE [raised |-> FALSE, vecs |-> e.vecs]

\* avg[i] += x overruns avg when some vector is longer than the first
IndexError(vecs) == \E j \in 1..Len(vecs) : Len(vecs[j]) > Len(vecs[1])

\* the sums accumulated in avg by the two loops
Accumulate(vecs) ==
    IF Len(vecs[1]) = 0 THEN <<>>
    ELSE [i \in 1..Len(vecs[1]) |->
            SumSeq([j \in 1..Len(vecs) |-> IF i <= Len(vecs[j]) THEN vecs[j][i] ELSE 0])]

\* query_vec: None, or the vector with components sum[i] / n
NoVector(trace) == [raised |-> FALSE, none |-> TRUE, sum |-> <<>>, n |-> 1, trace |-> trace]

Vector(sum, n, trace) == [raised |-> FALSE, none |-> FALSE, sum |-> sum, n |-> n, trace |-> trace]

Propagates(trace) == [raised |-> TRUE, none |-> TRUE, sum |-> <<>>, n |-> 1, trace |-> trace]

\* an error of the embedding service leaves _embed_terms
_embed_terms_service_error_escapes(terms, e) ==
    LET made == EmbeddingProvider_init(e)
        got == get_embeddings(e, terms)
    IN  IF made.raised THEN NoVector(<<"EmbeddingProvider">>)
        ELSE IF got.raised THEN Propagates(<<"EmbeddingProvider", "get_embeddings">>)
        ELSE IF got.vecs = <<>> THEN NoVector(<<"EmbeddingProvider", "get_embeddings">>)
        ELSE IF IndexError(got.vecs) THEN NoVector(<<"EmbeddingProvider", "get_embeddings">>)
        ELSE Vector(Accumulate(got.vecs), Len(got.vecs), <<"EmbeddingProvider", "get_embeddings">>)

\* the provider is constructed outside the try block
_embed_terms_constructor_outside_try(terms, e) ==
    LET made == EmbeddingProvider_init(e)
        got == get_embeddings(e, terms)
    IN  IF made.raised THEN Propagates(<<"EmbeddingProvider">>)
        ELSE IF got.raised THEN NoVector(<<"EmbeddingProvider", "get_embeddings">>)
        ELSE IF got.vecs = <<>> THEN NoVector(<<"EmbeddingProvider", "get_embeddings">>)
        ELSE IF IndexError(got.vecs) THEN NoVector(<<"EmbeddingProvider", "get_embeddings">>)
        ELSE Vector(Accumulate(got.vecs), Len(got.vecs), <<"EmbeddingProvider", "get_embeddings">>)

\* VectorStore._embed_terms
_embed_terms(terms, e) ==
    LET made == EmbeddingProvider_init(e)
        got == get_embeddings(e, terms)
    IN  IF made.raised THEN NoVector(<<"EmbeddingProvider">>)
        ELSE IF got.raised THEN NoVector(<<"EmbeddingProvider", "get_embeddings">>)
        ELSE IF got.vecs = <<>> THEN NoVector(<<"EmbeddingProvider", "get_embeddings">>)
        ELSE IF IndexError(got.vecs) THEN NoVector(<<"EmbeddingProvider", "get_embeddings">>)
        ELSE Vector(Accumulate(got.vecs), Len(got.vecs), <<"EmbeddingProvider", "get_embeddings">>)

(***************************************************************************)
(* Search                                                                  *)
(***************************************************************************)
Hit(it, score) == [id |-> it.id, name |-> it.name, score |-> score]

\* the name is not lower-cased
KeywordScore_case_sensitive(name, terms) ==
    SumSeq([j \in 1..Len(terms) |->
        IF lower(terms[j]) # <<>> /\ Contains(name, lower(terms[j])) THEN 1 ELSE 0])

\* the inner loop of _keyword_match: one point per term occurrence
KeywordScore(name, terms) ==
    SumSeq([j \in 1..Len(terms) |->
        IF lower(terms[j]) # <<>> /\ Contains(lower(name), lower(terms[j])) THEN 1 ELSE 0])

Returns(result, trace) == [raised |-> FALSE, result |-> result, trace |-> trace]

Raises(trace) == [raised |-> TRUE, result |-> <<>>, trace |-> trace]

\* VectorStore._keyword_match
_keyword_match(d, terms, top_k) ==
    LET items == GetItems(d)
        matching == SelectSeq(items.elems, LAMBDA it : KeywordScore(it.name, terms) > 0)
        scored == IF matching = <<>> THEN <<>>
                  ELSE [i \in 1..Len(matching) |->
                           Hit(matching[i], <<KeywordScore(matching[i].name, terms), 1>>)]
    IN  IF ~Iterable(items) THEN Raises(<<"_keyword_match">>)
        ELSE Returns(Slice(SortDesc(scored), top_k), <<"_keyword_match">>)

\* terms = [t for t in terms if t]
NonEmptyTerms(terms) == SelectSeq(terms, LAMBDA t : t # <<>>)

\* the records the cosine loop scores
CarriesEmbedding(it) == it.emb.present /\ it.emb.vec # <<>>

\* VectorStore.search_similar from the embedding on.  The cosine is unchanged
\* when the query vector is scaled by n > 0, so _cosine_sim is given the sums.
Rank(d, terms, top_k, e) ==
    LET items == GetItems(d)
        q == _embed_terms(terms, e)
        km == _keyword_match(d, terms, top_k)
        carrying == SelectSeq(items.elems, CarriesEmbedding)
        results == IF carrying = <<>> THEN <<>>
                   ELSE [i \in 1..Len(carrying) |->
                            Hit(carrying[i], _cosine_sim(q.sum, carrying[i].emb.vec))]
        out == IF q.raised THEN Raises(q.trace)
               ELSE IF q.none THEN [km EXCEPT !.trace = q.trace \o km.trace]
               ELSE IF ~Iterable(items) THEN Raises(q.trace \o <<"_cosine_sim">>)
               ELSE Returns(Slice(SortDesc(results), top_k), q.trace \o <<"_cosine_sim">>)
    IN  [raised |-> out.raised, result |-> out.result, trace |-> out.trace, query_vec |-> q]

NotRequested(out) ==
    [raised |-> out.raised, result |-> out.result, trace |-> out.trace,
     query_vec |-> NoVector(<<>>)]

\* the provider is consulted before the two early returns
search_similar_embed_first(d, terms0, top_k, e) ==
    IF ~d.isDict THEN NotRequested(Raises(<<>>))
    ELSE Rank(d, NonEmptyTerms(terms0), top_k, e)

\* VectorStore.search_similar
search_similar(d, terms0, top_k, e) ==
    IF NonEmptyTerms(terms0) = <<>> THEN NotRequested(Returns(<<>>, <<>>))
    ELSE IF ~d.isDict THEN NotRequested(Raises(<<>>))
    ELSE IF ~Truthy(GetItems(d)) THEN NotRequested(Returns(<<>>, <<>>))
    ELSE Rank(d, NonEmptyTerms(terms0), top_k, e)

(***************************************************************************)
(* Input domains                                                           *)
(***************************************************************************)
Body(name, emb) == [isDict |-> TRUE, name |-> name, emb |-> emb]

Bodies(Names, Embs) == {Body(n, e) : n \in Names, e \in Embs}

Other == [isDict |-> FALSE, name |-> <<>>, emb |-> NoEmbedding]

\* the elements of a list, numbered by position
WithIds(s) ==
    IF s = <<>> THEN <<>>
    ELSE [i \in 1..Len(s) |->
            IF s[i].isDict THEN Record(i, s[i].name, s[i].emb) ELSE NotARecord(i)]

Lists(B, n) == {WithIds(s) : s \in SeqsUpTo(B, n)}

Unused == [cond |-> "missing", json |-> DefaultData]

Files(Docs) ==
    {[cond |-> c, json |-> DefaultData] : c \in {"missing", "unreadable", "undecodable"}}
        \cup {[cond |-> "json", json |-> j] : j \in Docs}

Envs(V) ==
    {[creds |-> c, service |-> "raises", vecs |-> <<>>] : c \in BOOLEAN}
        \cup {[creds |-> c, service |-> "returns", vecs |-> v] : c \in BOOLEAN, v \in V}

NoConf == [DEP_TOP_K |-> "unset", DEP_CONTEXT_MAX_TOKENS |-> "unset"]

NoCall == [op |-> "none"]

(***************************************************************************)
(* Store specification: construct a VectorStore on a knowledge file, then  *)
(* search it.                                                              *)
(***************************************************************************)
SearchBodies == {Body(<<"a">>, NoEmbedding), Body(<<"A", "b">>, Embedding(<<1, 0>>))}

SearchVectors == {<<1>>, <<1, 0>>}

SearchTermSet == {<<>>, <<"a">>, <<"b">>}

SearchDocs ==
    {JsonNonObject}
        \cup {JsonObject(k, <<>>) : k \in {"missing", "falsy", "nonlist"}}
        \cup {JsonObject("list", l) : l \in Lists(SearchBodies \cup {Other}, MaxItems)}

InitStore ==
    /\ fs \in Files(SearchDocs)
    /\ env \in Envs(SeqsUpTo(SearchVectors, MaxVecs))
    /\ conf = NoConf
    /\ data = DefaultData
    /\ pc = "new"
    /\ call = NoCall

\* VectorStore.__init__
Construct ==
    /\ pc = "new"
    /\ data' = _load(fs)
    /\ pc' = "ready"
    /\ call' = [op |-> "VectorStore", raised |-> FALSE]
    /\ UNCHANGED <<fs, env, conf>>

SearchCall(terms, top_k) ==
    LET r == search_similar(data, terms, top_k, env)
    IN  call' = [op |-> "search_similar", terms |-> terms, top_k |-> top_k,
                 raised |-> r.raised, result |-> r.result, trace |-> r.trace,
                 query_vec |-> r.query_vec]

\* one search per behaviour: a search leaves the store as it found it, so the
\* searches that can follow a construction are the branches of this action
SearchOver(TermLists) ==
    /\ pc = "ready"
    /\ \E terms \in TermLists, top_k \in 0..MaxTopK : SearchCall(terms, top_k)
    /\ pc' = "searched"
    /\ UNCHANGED <<fs, env, conf, data>>

Search == SearchOver(SeqsUpTo(SearchTermSet, MaxTerms))

NextStore == Construct \/ Search

SpecStore == InitStore /\ [][NextStore]_vars

(***************************************************************************)
(* Lexical specification: a store of named records searched in degraded    *)
(* mode (the provider raises, or has no credentials).                      *)
(***************************************************************************)
LexNames == {<<>>, <<"a">>, <<"b">>, <<"b", "A">>, <<"A", "b">>}

LexTerms == {<<>>, <<"a">>, <<"A">>, <<"a", "b">>}

LexEnvs == {[creds |-> TRUE, service |-> "raises", vecs |-> <<>>]}

LexDocs == {JsonObject("list", l) : l \in Lists(Bodies(LexNames, {NoEmbedding}), MaxItems)}

InitLexical ==
    /\ fs \in {[cond |-> "json", json |-> j] : j \in LexDocs}
    /\ env \in LexEnvs
    /\ conf = NoConf
    /\ data = DefaultData
    /\ pc = "new"
    /\ call = NoCall

LexicalSearch == SearchOver(SeqsUpTo(LexTerms, MaxTerms))

NextLexical == Construct \/ LexicalSearch

SpecLexical == InitLexical /\ [][NextLexical]_vars

(***************************************************************************)
(* Vector specification: a store of embedded records searched with a       *)
(* provider that answers.                                                  *)
(***************************************************************************)
VecEmbs ==
    {NoEmbedding}
        \cup {Embedding(v) : v \in {<<>>, <<1>>, <<1, 0>>, <<2, 0>>, <<0, 1>>, <<-1, 0>>, <<1, 1>>}}

QueryVectors == {<<1>>, <<1, 0>>, <<1, 1>>, <<0, -1>>}

VecDocs == {JsonObject("list", l) : l \in Lists(Bodies({<<"a">>}, VecEmbs), MaxItems)}

InitVector ==
    /\ fs \in {[cond |-> "json", json |-> j] : j \in VecDocs}
    /\ env \in {[creds |-> TRUE, service |-> "returns", vecs |-> v] :
                   v \in SeqsUpTo(QueryVectors, MaxVecs) \ {<<>>}}
    /\ conf = NoConf
    /\ data = DefaultData
    /\ pc = "new"
    /\ call = NoCall

VectorSearch == SearchOver({<<<<"a">>>>})

NextVector == Construct \/ VectorSearch

SpecVector == InitVector /\ [][NextVector]_vars

(***************************************************************************)
(* Dependency extraction.  A code text is a sequence of statements:        *)
(*   "import"    import p.q                                                *)
(*   "from"      from p.q import n                                         *)
(*   "from_rel"  from . import n                                           *)
(*   "stmt"      x = 1                                                     *)
(*   "include"   #include <p/q.h>      (a comment to the Python parser)    *)
(*   "require"   const x = require('p/q')                                  *)
(*   "go"        import "p/q"                                              *)
(*   "es_from"   import n from 'p/q'                                       *)
(* with p.q the path and n the name of the statement.  list(deps) is kept  *)
(* as the set deps.                                                        *)
(***************************************************************************)
Pkgs == {<<"a">>, <<"b">>}

\* a root package followed by submodules, of which only the number matters
Paths(n) == {[i \in 1..k |-> IF i = 1 THEN p ELSE <<"b">>] : p \in Pkgs, k \in 1..n}

Statement(kind, path, name) == [kind |-> kind, path |-> path, name |-> name]

Statements(n) ==
    {Statement(k, p, <<"a">>) : k \in {"import", "include", "require", "go"}, p \in Paths(n)}
        \cup {Statement(k, p, m) : k \in {"from", "es_from"}, p \in Paths(n), m \in Pkgs}
        \cup {Statement("from_rel", <<<<"a">>>>, m) : m \in Pkgs}
        \cup {Statement("stmt", <<<<"a">>>>, <<"a">>)}

\* ast.parse(code) does not raise
Parses(code) ==
    \A i \in 1..Len(code) : code[i].kind \in {"import", "from", "from_rel", "stmt", "include"}

\* _extract_python_imports
_extract_python_imports(code) ==
    IF ~Parses(code) THEN {}
    ELSE {code[i].path[1] : i \in {j \in 1..Len(code) : code[j].kind \in {"import", "from"}}}

\* what the patterns of _extract_generic_deps_by_regex find in one statement
RegexMatches(st) ==
    IF st.kind \in {"import", "include", "require", "go"} THEN {st.path[1]}
    ELSE IF st.kind \in {"from", "es_from"} THEN {st.path[1], st.name}
    ELSE IF st.kind = "from_rel" THEN {st.name}
    ELSE {}

\* _extract_generic_deps_by_regex
_extract_generic_deps_by_regex(code) == UNION {RegexMatches(code[i]) : i \in 1..Len(code)}

\* the two results are merged
extract_dependencies_merged(code) ==
    _extract_python_imports(code) \cup _extract_generic_deps_by_regex(code)

\* extract_dependencies_from_code
extract_dependencies_from_code(code) ==
    IF _extract_python_imports(code) # {} THEN _extract_python_imports(code)
    ELSE _extract_generic_deps_by_regex(code)

(***************************************************************************)
(* Extraction specification                                                *)
(***************************************************************************)
InitExtract ==
    /\ fs = Unused
    /\ env = [creds |-> FALSE, service |-> "raises", vecs |-> <<>>]
    /\ conf = NoConf
    /\ data = DefaultData
    /\ pc = "new"
    /\ call = NoCall

Extract ==
    /\ pc = "new"
    /\ \E code \in SeqsUpTo(Statements(MaxPathLen), MaxLines) :
          call' = [op |-> "extract_dependencies_from_code", code |-> code, raised |-> FALSE,
                   deps |-> extract_dependencies_from_code(code)]
    /\ pc' = "extracted"
    /\ UNCHANGED <<fs, env, conf, data>>

NextExtract == Extract

SpecExtract == InitExtract /\ [][NextExtract]_vars

(***************************************************************************)
(* CodeReviewer.review_code.  A prompt is a sequence of parts; the joined  *)
(* context is the sequence of its rendered blocks, one token each.  A      *)
(* setting is [valid, value]: int() raises on a setting that is not valid. *)
(***************************************************************************)
MaxShown == 20

DefaultTopK == 5

DefaultMaxTokens == 1024

Setting(v) == [valid |-> TRUE, value |-> v]

BadSetting == [valid |-> FALSE, value |-> 0]

\* biz.utils.token_util.count_tokens
count_tokens(text) == Len(text)

\* biz.utils.token_util.truncate_text_by_tokens
truncate_text_by_tokens(text, max_tokens) == SubSeq(text, 1, Min(Max(max_tokens, 0), Len(text)))

\* ", ".join(dependencies[:20]) + (" ..." if len(dependencies) > 20 else "")
DepDisplay(dependencies) ==
    [shown |-> Slice(dependencies, MaxShown), more |-> Len(dependencies) > MaxShown]

\* the blocks rendered from the hits, numbered from 1
Blocks(hits) ==
    IF hits = <<>> THEN <<>>
    ELSE [i \in 1..Len(hits) |->
            [part |-> "block", no |-> i, name |-> hits[i].name, score |-> hits[i].score]]

\* the loop over the hits; an exception of search_similar skips it
Render(hits) ==
    IF hits.raised THEN [failed |-> TRUE, blocks |-> <<>>]
    ELSE [failed |-> FALSE, blocks |-> Blocks(hits.result)]

\* the try block: DEP_TOP_K, VectorStore(), search_similar and the rendering;
\* any exception leaves related_context_blocks as it is
RelatedContextBlocks(dependencies, f, e, c) ==
    IF ~c.DEP_TOP_K.valid THEN [failed |-> TRUE, blocks |-> <<>>]
    ELSE Render(search_similar(_load(f), dependencies, c.DEP_TOP_K.value, e))

BasePrompt == <<[part |-> "base_user_content"]>>

Extra(dep_display, related_context) ==
    <<[part |-> "header", deps |-> dep_display]>> \o related_context \o <<[part |-> "footer"]>>

\* the block is appended whenever dependencies were found
FinalUserContent_ignores_context(dependencies, related_context) ==
    IF dependencies # <<>>
    THEN BasePrompt \o Extra(DepDisplay(dependencies), related_context)
    ELSE BasePrompt

\* final_user_content
FinalUserContent(dependencies, related_context) ==
    IF dependencies # <<>> /\ related_context # <<>>
    THEN BasePrompt \o Extra(DepDisplay(dependencies), related_context)
    ELSE BasePrompt

\* the token limit on the joined context
Budgeted(joined, max_tokens) ==
    IF joined # <<>> /\ count_tokens(joined) > max_tokens
    THEN truncate_text_by_tokens(joined, max_tokens)
    ELSE joined

\* the messages handed to call_llm
CallLlm(dependencies, related_context, failed) ==
    [raised |-> FALSE, llm_called |-> TRUE,
     user_content |-> FinalUserContent(dependencies, related_context),
     related_context |-> related_context, failed |-> failed]

\* review_code after the try block
Assemble(dependencies, tried, c) ==
    IF ~c.DEP_CONTEXT_MAX_TOKENS.valid
    THEN [raised |-> TRUE, llm_called |-> FALSE, user_content |-> <<>>,
          related_context |-> tried.blocks, failed |-> tried.failed]
    ELSE CallLlm(dependencies, Budgeted(tried.blocks, c.DEP_CONTEXT_MAX_TOKENS.value),
                 tried.failed)

\* review_code from the extracted dependencies on
review_code(dependencies, f, e, c) ==
    Assemble(dependencies, RelatedContextBlocks(dependencies, f, e, c), c)

(***************************************************************************)
(* Review specification                                                    *)
(***************************************************************************)
\* the orders in which list(deps) may enumerate the set
Orderings(S) ==
    {o \in [1..Cardinality(S) -> S] : \A x \in S : \E i \in 1..Cardinality(S) : o[i] = x}

ReviewDocs ==
    {JsonNonObject}
        \cup {JsonObject("list", l) : l \in Lists(SearchBodies, MaxItems)}

ReviewSettings(default) == {BadSetting, Setting(0), Setting(1), Setting(default)}

InitReview ==
    /\ fs \in Files(ReviewDocs)
    /\ env \in Envs({<<>>, <<<<1, 0>>>>})
    /\ conf \in [DEP_TOP_K : ReviewSettings(DefaultTopK),
                 DEP_CONTEXT_MAX_TOKENS : ReviewSettings(DefaultMaxTokens)]
    /\ data = DefaultData
    /\ pc = "new"
    /\ call = NoCall

\* review_code on the added lines new_code of the diff; the store it builds
\* is kept in data when the settings let it be built
ReviewCode ==
    /\ pc = "new"
    /\ \E new_code \in SeqsUpTo(Statements(1), 1) :
       \E dependencies \in Orderings(extract_dependencies_from_code(new_code)) :
          LET r == review_code(dependencies, fs, env, conf)
          IN  call' = [op |-> "review_code", new_code |-> new_code,
                       dependencies |-> dependencies, raised |-> r.raised,
                       llm_called |-> r.llm_called, user_content |-> r.user_content,
                       related_context |-> r.related_context, failed |-> r.failed]
    /\ data' = IF conf.DEP_TOP_K.valid THEN _load(fs) ELSE data
    /\ pc' = "reviewed"
    /\ UNCHANGED <<fs, env, conf>>

NextReview == ReviewCode

SpecReview == InitReview /\ [][NextReview]_vars

(***************************************************************************)
(* Claims on the store specification                                       *)
(***************************************************************************)
Searched == call.op = "search_similar"

\* a snapshot as the data model describes it: an object whose items are a
\* list of records
WellFormed(d) == d.isDict /\ Iterable(GetItems(d))

HasItems(d) == WellFormed(d) /\ GetItems(d).elems # <<>>

Count(trace, event) == Cardinality({i \in 1..Len(trace) : trace[i] = event})

ProviderRaises == EmbeddingProvider_init(env).raised \/ env.service = "raises"

ProviderReturnsNothing == env.creds /\ env.service = "returns" /\ env.vecs = <<>>

\* C1: with non-empty terms and a snapshot of at least one record, when the
\* embedding provider raises or returns no vector, search_similar does not
\* raise and returns what _keyword_match returns for the same terms and top_k.
C1_ProviderFailureDegrades ==
    (/\ Searched
     /\ NonEmptyTerms(call.terms) # <<>>
     /\ HasItems(data)
     /\ (ProviderRaises \/ ProviderReturnsNothing))
    => /\ ~call.raised
       /\ call.query_vec.none
       /\ call.trace[Len(call.trace)] = "_keyword_match"
       /\ call.result = _keyword_match(data, call.terms, call.top_k).result
       /\ \A i \in 1..Len(call.result) : call.result[i].score[1] >= 1

C1_Witness ==
    /\ Searched
    /\ HasItems(data)
    /\ env.creds /\ env.service = "raises"
    /\ ~call.raised
    /\ Len(call.result) = 1
    /\ Len(GetItems(data).elems) = 2

\* C2 as stated: with non-empty terms, a non-empty snapshot and no
\* credentials, the construction error reaches the caller of search_similar
\* and the lexical fallback is not used.
C2_MissingCredentialsSurface ==
    (/\ Searched
     /\ NonEmptyTerms(call.terms) # <<>>
     /\ HasItems(data)
     /\ ~env.creds)
    => /\ call.raised
       /\ Count(call.trace, "_keyword_match") = 0

\* C2 amended: with non-empty terms, a non-empty snapshot and no
\* credentials, EmbeddingProvider() raises, _embed_terms catches the error
\* before any embedding is requested, and search_similar returns the lexical
\* fallback without raising.
C2_MissingCredentialsDegrade ==
    (/\ Searched
     /\ NonEmptyTerms(call.terms) # <<>>
     /\ HasItems(data)
     /\ ~env.creds)
    => /\ EmbeddingProvider_init(env).raised
       /\ ~call.raised
       /\ call.trace = <<"EmbeddingProvider", "_keyword_match">>
       /\ call.result = _keyword_match(data, call.terms, call.top_k).result

C2_Witness ==
    /\ Searched
    /\ HasItems(data)
    /\ ~env.creds /\ env.service = "returns" /\ env.vecs = <<<<1, 0>>>>
    /\ call.trace = <<"EmbeddingProvider", "_keyword_match">>
    /\ Len(call.result) = 2

Absorbed(f) == f.cond \in {"missing", "unreadable", "undecodable"}

Malformed(f) == f.cond = "json" /\ ~WellFormed(f.json)

\* C4 as stated: whether the knowledge file is missing, unreadable, not
\* decodable or decodable but malformed, construction does not raise and
\* leaves empty items, and every later search returns [] without raising.
C4_BadFileGivesEmptyStore ==
    (pc # "new" /\ (Absorbed(fs) \/ Malformed(fs)))
    => /\ data.isDict
       /\ ~Truthy(GetItems(data))
       /\ Searched => (~call.raised /\ call.result = <<>>)

\* C9: search_similar returns [] without constructing or calling the
\* provider when no non-empty term is left or the snapshot has no items; the
\* provider is constructed and called only after both checks, at most once.
C9_ProviderOnlyAfterChecks ==
    Searched =>
        /\ (NonEmptyTerms(call.terms) = <<>> \/ (data.isDict /\ ~Truthy(GetItems(data))))
              => (~call.raised /\ call.result = <<>> /\ call.trace = <<>>)
        /\ Count(call.trace, "EmbeddingProvider") <= 1
        /\ Count(call.trace, "get_embeddings") <= 1
        /\ Count(call.trace, "EmbeddingProvider") + Count(call.trace, "get_embeddings") > 0
              => (/\ NonEmptyTerms(call.terms) # <<>>
                  /\ data.isDict /\ Truthy(GetItems(data))
                  /\ call.trace[1] = "EmbeddingProvider")

C9_Witness ==
    /\ Searched
    /\ call.terms = <<<<>>, <<>>>>
    /\ HasItems(data)
    /\ env.creds /\ env.service = "returns" /\ env.vecs # <<>>
    /\ call.trace = <<>>

EqualLengths(vecs) == \A i, j \in 1..Len(vecs) : Len(vecs[i]) = Len(vecs[j])

IsMean(q, vecs) ==
    /\ q.n = Len(vecs)
    /\ Len(q.sum) = Len(vecs[1])
    /\ \A i \in 1..Len(q.sum) : q.sum[i] = SumSeq([j \in 1..Len(vecs) |-> vecs[j][i]])

ProviderAnswered ==
    /\ Searched
    /\ HasItems(data)
    /\ Count(call.trace, "get_embeddings") = 1
    /\ env.service = "returns"
    /\ env.vecs # <<>>

\* C10 as stated: when the returned vectors do not all have the same length,
\* _embed_terms yields no query vector and search_similar uses the lexical
\* fallback; a query vector that is produced is the element-wise mean of the
\* returned vectors, all of equal length.
C10_MismatchDegrades ==
    ProviderAnswered =>
        /\ ~EqualLengths(env.vecs)
              => (call.query_vec.none /\ Count(call.trace, "_keyword_match") = 1)
        /\ ~call.query_vec.none
              => (EqualLengths(env.vecs) /\ IsMean(call.query_vec, env.vecs))


(***************************************************************************)
(* Claims on the lexical specification                                     *)
(***************************************************************************)
Degraded == Searched /\ HasItems(data) /\ call.query_vec.none /\ ~call.raised

Matches(name, t) == t # <<>> /\ Contains(lower(name), lower(t))

\* the terms of the list that match, each position counted
Occurrences(name, terms) == Cardinality({j \in 1..Len(terms) : Matches(name, terms[j])})

\* the distinct terms that match
DistinctMatches(name, terms) ==
    Cardinality({t \in {terms[j] : j \in 1..Len(terms)} : Matches(name, t)})

ItemOf(hit) == GetItems(data).elems[hit.id]

Returned(id) == \E i \in 1..Len(call.result) : call.result[i].id = id

\* what C5 says of the returned records besides their score: they are
\* records of the snapshot with a matching term, none twice, and as many of
\* the matching records as top_k allows
LexicalCandidates ==
    /\ \A i \in 1..Len(call.result) :
          /\ call.result[i].id \in 1..Len(GetItems(data).elems)
          /\ call.result[i].name = ItemOf(call.result[i]).name
          /\ Occurrences(call.result[i].name, call.terms) >= 1
    /\ \A i, j \in 1..Len(call.result) : call.result[i].id = call.result[j].id => i = j
    /\ Len(call.result) =
          Min(call.top_k, Cardinality({k \in 1..Len(GetItems(data).elems) :
                 Occurrences(GetItems(data).elems[k].name, call.terms) >= 1}))

\* C5 as stated: in degraded mode the score of each returned record is the
\* number of distinct query terms that are case-insensitive substrings of its
\* name; every record with such a term is a candidate, none with count 0 is
\* returned.
C5_ScoreCountsDistinctTerms ==
    Degraded =>
        /\ LexicalCandidates
        /\ \A i \in 1..Len(call.result) :
              call.result[i].score = <<DistinctMatches(call.result[i].name, call.terms), 1>>

\* C5 amended: the score of each returned record is the number of entries of
\* the term list, a repeated term counted once per repetition, that are
\* non-empty case-insensitive substrings of its name; every record with such
\* a term is a candidate, none with count 0 is returned.
C5_ScoreCountsTermOccurrences ==
    Degraded =>
        /\ LexicalCandidates
        /\ \A i \in 1..Len(call.result) :
              call.result[i].score = <<Occurrences(call.result[i].name, call.terms), 1>>

C5_Witness ==
    /\ Degraded
    /\ call.terms = <<<<"a">>, <<"a">>>>
    /\ Len(call.result) = 2
    /\ call.result[1].name = <<"b", "A">>
    /\ call.result[1].score = <<2, 1>>

(***************************************************************************)
(* Claims on the vector specification                                      *)
(***************************************************************************)
Ranked == Searched /\ WellFormed(data) /\ ~call.query_vec.none /\ ~call.raised

Carrying == {k \in 1..Len(GetItems(data).elems) : CarriesEmbedding(GetItems(data).elems[k])}

Similarity(k) == _cosine_sim(call.query_vec.sum, GetItems(data).elems[k].emb.vec)

\* k comes before l in the list ordered by descending score, equal scores in
\* item order
Before(k, l) ==
    \/ ScoreLT(Similarity(l), Similarity(k))
    \/ ScoreEQ(Similarity(l), Similarity(k)) /\ k < l

\* C6: with a query vector, search_similar returns the first top_k of the
\* records carrying an embedding, ordered by descending cosine similarity,
\* equal scores in item order: at most top_k entries, scores non-increasing,
\* no record without an embedding.
C6_VectorRanking ==
    Ranked =>
        /\ Len(call.result) = Min(call.top_k, Cardinality(Carrying))
        /\ \A i \in 1..Len(call.result) :
              /\ call.result[i].id \in Carrying
              /\ call.result[i].score = Similarity(call.result[i].id)
        /\ \A i \in 1..(Len(call.result) - 1) :
              /\ ~ScoreLT(call.result[i].score, call.result[i + 1].score)
              /\ Before(call.result[i].id, call.result[i + 1].id)
        /\ \A i \in 1..Len(call.result) : \A k \in Carrying :
              ~Returned(k) => Before(call.result[i].id, k)

C6_Witness ==
    /\ Ranked
    /\ Len(GetItems(data).elems) = 2
    /\ Cardinality(Carrying) = 2
    /\ call.top_k = 2
    /\ call.result[1].id = 2
    /\ ScoreLT(call.result[2].score, <<0, 1>>)
    /\ ScoreLT(<<0, 1>>, call.result[1].score)

(***************************************************************************)
(* Claims on the extraction specification                                  *)
(***************************************************************************)
Extracted == call.op = "extract_dependencies_from_code"

\* C8: extract_dependencies_from_code never raises; it returns the result of
\* _extract_python_imports when the parse succeeds and finds an identifier,
\* and otherwise exactly the result of _extract_generic_deps_by_regex; the
\* two results are never merged.
C8_ParseFirstElseRegex ==
    Extracted =>
        /\ ~call.raised
        /\ (Parses(call.code) /\ _extract_python_imports(call.code) # {})
              => call.deps = _extract_python_imports(call.code)
        /\ ~(Parses(call.code) /\ _extract_python_imports(call.code) # {})
              => call.deps = _extract_generic_deps_by_regex(call.code)

C8_Witness ==
    /\ Extracted
    /\ Len(call.code) = 2
    /\ call.code[1].kind = "from" /\ call.code[1].path[1] = <<"a">> /\ call.code[1].name = <<"b">>
    /\ call.code[2].kind = "include" /\ call.code[2].path[1] = <<"b">>
    /\ call.deps = {<<"a">>}
    /\ _extract_generic_deps_by_regex(call.code) = {<<"a">>, <<"b">>}

(***************************************************************************)
(* Claims on the review specification                                      *)
(***************************************************************************)
Reviewed == call.op = "review_code"

StepFailed == call.failed \/ ~conf.DEP_TOP_K.valid \/ ~conf.DEP_CONTEXT_MAX_TOKENS.valid

\* C3 as stated: an exception raised in any assembly step of review_code,
\* the reading of the settings included, is caught inside review_code: the
\* review reaches call_llm with the unmodified base prompt as user message.
C3_AssemblyFailuresAbsorbed ==
    Reviewed =>
        /\ ~call.raised
        /\ call.llm_called
        /\ StepFailed => call.user_content = BasePrompt

IsPrefix(p, t) == Len(p) <= Len(t) /\ SubSeq(t, 1, Len(p)) = p

Appended == call.user_content # BasePrompt

\* C7: review_code appends the dependency-context block exactly when the
\* identifier list and the context left after truncation are both non-empty;
\* otherwise the user message is the base prompt, and an appended block
\* leaves the base prompt as the unchanged prefix.
C7_BlockAppendedIffContext ==
    (Reviewed /\ call.llm_called) =>
        /\ Appended <=> (call.dependencies # <<>> /\ call.related_context # <<>>)
        /\ IsPrefix(BasePrompt, call.user_content)
        /\ Appended =>
              call.user_content
                 = BasePrompt \o Extra(DepDisplay(call.dependencies), call.related_context)

C7_Witness ==
    /\ Reviewed /\ call.llm_called
    /\ call.dependencies # <<>>
    /\ conf.DEP_CONTEXT_MAX_TOKENS = Setting(0)
    /\ conf.DEP_TOP_K = Setting(1)
    /\ HasItems(data)
    /\ ~call.failed
    /\ call.related_context = <<>>
    /\ ~Appended

====
